---- MODULE Spec2Model ----
\* A model of Rocket's connection-acceptance layer:
\*   core/http/src/listener.rs      Certificates, Incoming (accept loop with backoff)
\*   core/http/src/tls/listener.rs  TlsListener, TlsStream (handshake overlapped with I/O)
\*
\* Three specifications share the module:
\*   Spec      the accept loop Incoming<L> over an arbitrary inner listener L
\*   TlsSpec   a TlsListener over a raw listener, and the TlsStreams it returns
\*   CertSpec  one Certificates store under arbitrary set / chain_data calls
EXTENDS Integers, Sequences, FiniteSets, TLC

\* ---------------------------------------------------------------- bounds

\* Granularity of the clock, in milliseconds, and the last instant modelled.
TickMs == 50
MaxTime == 300
\* Calls of the inner listener's poll_accept made by the accept loop.
MaxCalls == 4
\* Connections the inner listener of the accept loop hands out.
MaxConns == 2
\* Connections the raw listener under the TlsListener hands out.
MaxStreams == 2
\* Certificates in a chain passed to Certificates::set in CertSpec.
MaxChain == 2
\* Calls of Certificates::set on the store of CertSpec.
MaxSets == 3

\* ---------------------------------------------------------------- Option<T>

None == <<>>
Some(x) == <<x>>
IsSome(o) == o # <<>>
Unwrap(o) == o[1]

\* ---------------------------------------------------------------- values

\* io::ErrorKind values the inner listener may fail with.
ConnectionKinds == {"ConnectionRefused", "ConnectionAborted", "ConnectionReset"}
OtherKinds == {"Other", "TimedOut"}
ErrorKinds == ConnectionKinds \cup OtherKinds

\* Durations a caller passes to sleep_on_errors, in milliseconds.
Durations == {50, 100}

\* Incoming::new: sleep_on_errors: Some(Duration::from_millis(250)).
DefaultSleepMs == 250

ConnIds == 1..MaxConns

\* TLS: the connections of the raw listener, and the TlsStreams made of them.
StreamIds == 1..MaxStreams
\* BindableAddr values a raw connection reports as its peer.
Addrs == {"a1"}
\* CertificateData values, and the chains of them up to MaxChain long.
CertData == {"leaf", "ca"}
Chains == UNION {[1..n -> CertData] : n \in 1..MaxChain}
\* The chains a TLS peer presents: its own certificate first, then the issuer;
\* the third is a peer that sends them in the other order.
PeerChains == {<<"leaf">>, <<"leaf", "ca">>, <<"ca", "leaf">>}

\* What the last call on the TlsListener or on a TlsStream returned, and what
\* it acted on: via is "raw" (the raw transport), "tls" (the TLS stream),
\* "handshake" (the handshake future) or "none" (no I/O).
TlsRet(op, c, type, via) == [op |-> op, conn |-> c, type |-> type, via |-> via]
PollResults == {"pending", "ok", "err"}

\* Poll<io::Result<Connection>> of the inner listener.
InnerPending == [type |-> "pending", kind |-> "", conn |-> 0]
InnerOk(c) == [type |-> "ok", kind |-> "", conn |-> c]
InnerErr(k) == [type |-> "err", kind |-> k, conn |-> 0]

\* Poll<io::Result<L::Connection>> of poll_accept_next; why records which
\* futures::ready! returned Pending.
RetNone == [type |-> "none", kind |-> "", conn |-> 0, why |-> ""]
RetPending(w) == [type |-> "pending", kind |-> "", conn |-> 0, why |-> w]
RetOk(c) == [type |-> "ok", kind |-> "", conn |-> c, why |-> ""]
RetErr(k) == [type |-> "err", kind |-> k, conn |-> 0, why |-> ""]

VARIABLES
    \* Incoming<L>
    sleep_on_errors,      \* Option<Duration>
    nodelay,              \* bool
    pending_error_delay,  \* Option<Sleep>: the deadline of the armed timer
    \* the task polling the Incoming
    pc,                   \* "new" (built, never polled), "loop" (inside poll_accept_next), "idle"
    ret,                  \* what the last completed poll_accept_next returned
    yielded,              \* the connections returned so far, in order
    \* the environment
    now,                  \* the clock, in milliseconds
    inner_next,           \* the next connection of the inner listener
    conn_nodelay,         \* per connection: "unset", "on", "failed" (enable_nodelay)
    \* history of the inner listener's poll_accept
    inner_calls,          \* how many calls were made
    calls_this_poll,      \* how many of them in the current poll_accept_next
    inner_last,           \* the result of the last call
    inner_last_at,        \* the clock at the last call
    sys_err_at,           \* Option: the clock at the last error that armed the timer
    \* the raw listener and its connections
    raw_accepted,         \* how many connections the raw listener handed out
    raw_peer,             \* per raw connection: Option<BindableAddr>, its peer_address() now
    \* TlsStream<C>, per connection
    remote,               \* Option<BindableAddr>
    state,                \* "Absent" (not accepted yet), "Handshaking", "Streaming"
    accept,               \* the handshake future: "Handshaking" or "End"
    certs,                \* Certificates: the store its Arc points to
    session_certs,        \* Option<chain>: peer_certificates() of the rustls session
    hs_polled,            \* whether the handshake future was ever polled
    poisoned,             \* the streams whose task panicked
    tls_ret,              \* what the last call returned
    \* the heap of Storage<Vec<CertificateData>> cells
    storage,              \* per store: Option<chain>
    \* the caller of CertSpec
    cert_ret,             \* what its last call of set or chain_data returned
    sets,                 \* how many times it called set
    first_set,            \* Option<chain>: what it passed to its first set
    last_set,             \* Option<chain>: what it passed to its last set
    \* the caller of one TlsStream's poll_read and poll_write
    driven_by,            \* per stream: the calls that polled its handshake future
    \* one Certificates store shared by tasks that hold clones of its handle
    init_started,         \* the store's cell: a set has claimed the write
    init_done,            \* the store's cell: the write is complete
    item,                 \* the store's cell: Option<Vec<CertificateData>>, as far as written
    setters,              \* per setting task: pc, data, n (certificates written), ret
    readers,              \* per reading task: pc, val (what chain_data returned),
                          \* returned, after (the fill completed before the call)
    filled_by,            \* Option<chain>: the data of the set that returned true
    \* listeners, their connections and the filesystem
    fs,                   \* the paths that exist in the filesystem
    listeners,            \* per listener: kind ("none", "tcp", "unix"), path, live
    local_streams,        \* per listener: its accepted connections not yet dropped
    dropped,              \* what the last drop was and did
    \* the caller of Accept::poll_accept on the Incoming
    accept_ret,           \* Poll<Option<io::Result<Conn>>>: what the last call returned
    fatal_returned        \* an earlier call returned Some(Err(..))

acceptVars == <<sleep_on_errors, nodelay, pending_error_delay, pc, ret, yielded,
                now, inner_next, conn_nodelay, inner_calls, calls_this_poll,
                inner_last, inner_last_at, sys_err_at>>

tlsVars == <<raw_accepted, raw_peer, remote, state, accept,
             certs, session_certs, hs_polled, poisoned, tls_ret>>

certVars == <<cert_ret, sets, first_set, last_set>>

hsVars == <<driven_by>>

raceVars == <<init_started, init_done, item, setters, readers, filled_by>>

fsVars == <<fs, listeners, local_streams, dropped>>

adapterVars == <<accept_ret, fatal_returned>>

vars == <<acceptVars, tlsVars, storage, certVars, hsVars, raceVars, fsVars,
          adapterVars>>

\* ---------------------------------------------------------------- accept loop

\* A classification that forgets ConnectionReset.
is_connection_error_no_reset(kind) ==
    kind \in {"ConnectionRefused", "ConnectionAborted"}

\* fn is_connection_error(e: &io::Error) -> bool
is_connection_error(kind) ==
    kind \in {"ConnectionRefused", "ConnectionAborted", "ConnectionReset"}

\* A timer that is armed with no duration.
tokio_sleep_zero(duration) == now

\* tokio::time::sleep(duration): a Sleep whose deadline is now + duration.
tokio_sleep(duration) == now + duration

\* A timer that is Ready whenever it is polled.
Sleep_poll_ready(deadline) == TRUE

\* A timer that is never Ready.
Sleep_poll_never(deadline) == FALSE

\* Sleep::poll: TRUE when Ready (the deadline has been reached).
Sleep_poll(deadline) == now >= deadline

\* Incoming::new(listener)
AcceptInit ==
    /\ sleep_on_errors = Some(DefaultSleepMs)
    /\ nodelay = FALSE
    /\ pending_error_delay = None
    /\ pc = "new"
    /\ ret = RetNone
    /\ yielded = <<>>
    /\ now = 0
    /\ inner_next = 1
    /\ conn_nodelay = [c \in ConnIds |-> "unset"]
    /\ inner_calls = 0
    /\ calls_this_poll = 0
    /\ inner_last = InnerPending
    /\ inner_last_at = 0
    /\ sys_err_at = None

\* Incoming::sleep_on_errors(self, val): a builder, it consumes the value, so
\* it runs before the Incoming is pinned and polled.
SleepOnErrors ==
    /\ pc = "new"
    /\ \E val \in {None} \cup {Some(d) : d \in Durations} :
         sleep_on_errors' = val
    /\ UNCHANGED <<nodelay, pending_error_delay, pc, ret, yielded, now, inner_next,
                   conn_nodelay, inner_calls, calls_this_poll, inner_last,
                   inner_last_at, sys_err_at>>

\* Incoming::nodelay(self, nodelay)
Nodelay ==
    /\ pc = "new"
    /\ \E b \in BOOLEAN : nodelay' = b
    /\ UNCHANGED <<sleep_on_errors, pending_error_delay, pc, ret, yielded, now,
                   inner_next, conn_nodelay, inner_calls, calls_this_poll,
                   inner_last, inner_last_at, sys_err_at>>

\* A caller polls poll_accept_next: `let mut this = self.project(); loop {`.
\* Nothing in Incoming records an earlier return, so any poll may follow any.
PollAcceptNext ==
    /\ pc \in {"new", "idle"}
    /\ pc' = "loop"
    /\ calls_this_poll' = 0
    /\ UNCHANGED <<sleep_on_errors, nodelay, pending_error_delay, ret, yielded, now,
                   inner_next, conn_nodelay, inner_calls, inner_last,
                   inner_last_at, sys_err_at>>

\* An accept that propagates the failure of enable_nodelay (`?` instead of warn!).
OnAccepted_propagate(c, nd_ok) ==
    /\ conn_nodelay' = [conn_nodelay EXCEPT ![c] =
                          IF nodelay THEN (IF nd_ok THEN "on" ELSE "failed") ELSE @]
    /\ pc' = "idle"
    /\ IF nodelay /\ ~nd_ok
       THEN ret' = RetErr("Other") /\ UNCHANGED yielded
       ELSE ret' = RetOk(c) /\ yielded' = Append(yielded, c)
    /\ UNCHANGED <<sys_err_at>>

\* An accept that lets go of a connection whose enable_nodelay failed and
\* goes round the loop for the next one.
OnAccepted_skips_failed_nodelay(c, nd_ok) ==
    /\ conn_nodelay' = [conn_nodelay EXCEPT ![c] =
                          IF nodelay THEN (IF nd_ok THEN "on" ELSE "failed") ELSE @]
    /\ IF nodelay /\ ~nd_ok
       THEN UNCHANGED <<pc, ret, yielded>>
       ELSE /\ pc' = "idle"
            /\ ret' = RetOk(c)
            /\ yielded' = Append(yielded, c)
    /\ UNCHANGED <<sys_err_at>>

\* Ok(stream) => { if *this.nodelay { if let Err(e) = stream.enable_nodelay()
\* { warn!(..) } } return Poll::Ready(Ok(stream)); }
\* nd_ok: whether enable_nodelay succeeds on this connection.
OnAccepted(c, nd_ok) ==
    /\ conn_nodelay' = [conn_nodelay EXCEPT ![c] =
                          IF nodelay THEN (IF nd_ok THEN "on" ELSE "failed") ELSE @]
    /\ pc' = "idle"
    /\ ret' = RetOk(c)
    /\ yielded' = Append(yielded, c)
    /\ UNCHANGED <<sys_err_at>>

\* An error branch that retries at once when no backoff is configured.
OnError_never_fatal(kind) ==
    IF is_connection_error(kind) \/ ~IsSome(sleep_on_errors)
    THEN /\ pending_error_delay' = None
         /\ UNCHANGED <<pc, ret, sys_err_at>>
    ELSE /\ pending_error_delay' = Some(tokio_sleep(Unwrap(sleep_on_errors)))
         /\ sys_err_at' = Some(now)
         /\ UNCHANGED <<pc, ret>>

\* An error branch that returns every error that is not connection-scoped.
OnError_always_fatal(kind) ==
    IF is_connection_error(kind)
    THEN /\ pending_error_delay' = None
         /\ UNCHANGED <<pc, ret, sys_err_at>>
    ELSE /\ pending_error_delay' = None
         /\ pc' = "idle"
         /\ ret' = RetErr(kind)
         /\ UNCHANGED <<sys_err_at>>

\* Err(e) => { if is_connection_error(&e) { warn!(..) } else if let
\* Some(duration) = this.sleep_on_errors { ..set(Some(sleep(*duration))) }
\* else { return Poll::Ready(Err(e)) } }
\* The timer is cleared (line 170) before the listener is polled.
OnError(kind) ==
    IF is_connection_error(kind)
    THEN /\ pending_error_delay' = None
         /\ UNCHANGED <<pc, ret, sys_err_at>>
    ELSE IF IsSome(sleep_on_errors)
    THEN /\ pending_error_delay' = Some(tokio_sleep(Unwrap(sleep_on_errors)))
         /\ sys_err_at' = Some(now)
         /\ UNCHANGED <<pc, ret>>
    ELSE /\ pending_error_delay' = None
         /\ pc' = "idle"
         /\ ret' = RetErr(kind)
         /\ UNCHANGED <<sys_err_at>>

\* The results the inner listener can give to one poll_accept.
InnerResults ==
    {InnerPending} \cup {InnerErr(k) : k \in ErrorKinds}
        \cup (IF inner_next <= MaxConns THEN {InnerOk(inner_next)} ELSE {})

\* A poll of the listener that does not clear the timer first: an elapsed
\* timer stays in place when the listener is pending or gives a connection.
ListenerPolled_keeps_timer(r) ==
    /\ inner_calls' = inner_calls + 1
    /\ calls_this_poll' = calls_this_poll + 1
    /\ inner_last' = r
    /\ inner_last_at' = now
    /\ CASE r.type = "pending" ->
              /\ pc' = "idle"
              /\ ret' = RetPending("listener")
              /\ UNCHANGED <<pending_error_delay, yielded, inner_next,
                             conn_nodelay, sys_err_at>>
         [] r.type = "ok" ->
              /\ UNCHANGED pending_error_delay
              /\ inner_next' = inner_next + 1
              /\ \E nd_ok \in BOOLEAN : OnAccepted(r.conn, nd_ok)
         [] r.type = "err" ->
              /\ OnError(r.kind)
              /\ UNCHANGED <<yielded, inner_next, conn_nodelay>>

\* match futures::ready!(this.listener.as_mut().poll_accept(cx)) { .. }
ListenerPolled(r) ==
    /\ inner_calls' = inner_calls + 1
    /\ calls_this_poll' = calls_this_poll + 1
    /\ inner_last' = r
    /\ inner_last_at' = now
    /\ CASE r.type = "pending" ->
              /\ pending_error_delay' = None
              /\ pc' = "idle"
              /\ ret' = RetPending("listener")
              /\ UNCHANGED <<yielded, inner_next, conn_nodelay, sys_err_at>>
         [] r.type = "ok" ->
              /\ pending_error_delay' = None
              /\ inner_next' = inner_next + 1
              /\ \E nd_ok \in BOOLEAN : OnAccepted(r.conn, nd_ok)
         [] r.type = "err" ->
              /\ OnError(r.kind)
              /\ UNCHANGED <<yielded, inner_next, conn_nodelay>>

\* One iteration of the loop of poll_accept_next (lines 164-199).
LoopIteration ==
    /\ pc = "loop"
    /\ IF IsSome(pending_error_delay) /\ ~Sleep_poll(Unwrap(pending_error_delay))
       THEN \* futures::ready!(delay.poll(cx)) returns Pending
            /\ pc' = "idle"
            /\ ret' = RetPending("timer")
            /\ UNCHANGED <<pending_error_delay, yielded, inner_next, conn_nodelay,
                           inner_calls, calls_this_poll, inner_last, inner_last_at,
                           sys_err_at>>
       ELSE \* this.pending_error_delay.set(None), then the listener is polled
            /\ inner_calls < MaxCalls
            /\ \E r \in InnerResults : ListenerPolled(r)
    /\ UNCHANGED <<sleep_on_errors, nodelay, now>>

\* Time passes.
Tick ==
    /\ now + TickMs <= MaxTime
    /\ now' = now + TickMs
    /\ UNCHANGED <<sleep_on_errors, nodelay, pending_error_delay, pc, ret, yielded,
                   inner_next, conn_nodelay, inner_calls, calls_this_poll,
                   inner_last, inner_last_at, sys_err_at>>

\* ---------------------------------------------------------------- Certificates

\* The stores: one per TlsStream, and store 0 for CertSpec.
StoreIds == 0..MaxStreams

\* A cell that the last set wins.
Certificates_set_overwrite(h, data) ==
    storage' = [storage EXCEPT ![h] = Some(data)]

\* Certificates::set(&self, data): self.0.set(data), Storage::set. "Only the
\* first call actually sets the data; the remaining do nothing."
Certificates_set(h, data) ==
    storage' = [storage EXCEPT ![h] = IF IsSome(@) THEN @ ELSE Some(data)]

\* A copy that reverses the order.
to_vec_reversed(slice) == [i \in 1..Len(slice) |-> slice[Len(slice) + 1 - i]]

\* <[T]>::to_vec: a Vec of the slice's elements, in the slice's order.
to_vec(slice) == [i \in 1..Len(slice) |-> slice[i]]

\* Vec::as_slice: the Vec's elements, in order.
as_slice(v) == [i \in 1..Len(v) |-> v[i]]

\* Certificates::chain_data(&self): self.0.try_get().map(|v| v.as_slice())
chain_data(h) ==
    IF IsSome(storage[h]) THEN Some(as_slice(Unwrap(storage[h]))) ELSE None

\* What a call on the store of CertSpec returned.
CertRet(op, val) == [op |-> op, val |-> val]

CertInit ==
    /\ cert_ret = CertRet("none", None)
    /\ sets = 0
    /\ first_set = None
    /\ last_set = None

\* A call of Certificates::set(data) on store 0; it returns ().
Cert_set ==
    /\ sets < MaxSets
    /\ \E data \in Chains :
         /\ Certificates_set(0, data)
         /\ first_set' = IF sets = 0 THEN Some(data) ELSE first_set
         /\ last_set' = Some(data)
    /\ sets' = sets + 1
    /\ cert_ret' = CertRet("set", None)

\* A call of Certificates::chain_data() on store 0.
Cert_chain_data ==
    /\ cert_ret' = CertRet("chain_data", chain_data(0))
    /\ UNCHANGED <<storage, sets, first_set, last_set>>

\* Certificates::default(): a new Arc of a new, empty Storage. The connection
\* c gets the cell c of the heap, never handed out before.
Certificates_default(c) == c

\* ---------------------------------------------------------------- TlsListener, TlsStream

TlsRetNone == TlsRet("none", 0, "none", "none")

TlsInit ==
    /\ raw_accepted = 0
    /\ raw_peer = [c \in StreamIds |-> None]
    /\ remote = [c \in StreamIds |-> None]
    /\ state = [c \in StreamIds |-> "Absent"]
    /\ accept = [c \in StreamIds |-> "End"]
    /\ certs = [c \in StreamIds |-> 0]
    /\ session_certs = [c \in StreamIds |-> None]
    /\ hs_polled = [c \in StreamIds |-> FALSE]
    /\ poisoned = {}
    /\ tls_ret = TlsRetNone

\* The stream exists and its task has not panicked.
Live(c) == state[c] # "Absent" /\ c \notin poisoned

\* An accept that polls the handshake once before it returns the stream.
NewTlsStream_eager(c, peer) ==
    /\ remote' = [remote EXCEPT ![c] = peer]
    /\ state' = [state EXCEPT ![c] = "Handshaking"]
    /\ accept' = [accept EXCEPT ![c] = "Handshaking"]
    /\ certs' = [certs EXCEPT ![c] = Certificates_default(c)]
    /\ hs_polled' = [hs_polled EXCEPT ![c] = TRUE]
    /\ UNCHANGED <<session_certs, storage>>

\* TlsStream { remote: conn.peer_address(), state: TlsState::Handshaking(
\* self.acceptor.accept(conn)), certs: Certificates::default() }
\* peer: what conn.peer_address() returns now.
NewTlsStream(c, peer) ==
    /\ remote' = [remote EXCEPT ![c] = peer]
    /\ state' = [state EXCEPT ![c] = "Handshaking"]
    /\ accept' = [accept EXCEPT ![c] = "Handshaking"]
    /\ certs' = [certs EXCEPT ![c] = Certificates_default(c)]
    /\ UNCHANGED <<session_certs, hs_polled, storage>>

\* TlsListener::poll_accept
TlsListener_poll_accept ==
    /\ \/ \* the raw listener is pending, or fails: Err(e) => Poll::Ready(Err(e))
          /\ \E r \in {"pending", "err"} :
               tls_ret' = TlsRet("poll_accept", 0, r, "raw")
          /\ UNCHANGED <<raw_accepted, raw_peer, remote, state, accept, certs,
                         session_certs, hs_polled, storage>>
       \/ \* Ok(conn)
          /\ raw_accepted < MaxStreams
          /\ \E peer \in {None} \cup {Some(a) : a \in Addrs} :
               LET c == raw_accepted + 1 IN
               /\ raw_accepted' = c
               /\ raw_peer' = [raw_peer EXCEPT ![c] = peer]
               /\ NewTlsStream(c, peer)
               /\ tls_ret' = TlsRet("poll_accept", c, "ok", "raw")
    /\ UNCHANGED <<poisoned>>

\* TlsStream::peer_address(&self): self.remote.clone()
peer_address(c) == remote[c]

\* The trait's default: fn peer_certificates(&self) -> Option<Certificates> { None }
peer_certificates_default(c) == None

\* TlsStream::peer_certificates(&self): Some(self.certs.clone()); the clone
\* of an Arc points to the same store.
peer_certificates(c) == Some(certs[c])

\* Accept::get_ref / get_mut: the raw transport, while the future holds it.
Accept_get_ref(c) == IF accept[c] = "Handshaking" THEN Some(c) ELSE None

\* What one poll of the handshake future of c can give. The future holds the
\* raw transport until it completes ("End"), with a stream or with an error
\* (the raw transport is dropped with the error); polled after that, it
\* panics. chain is the rustls session's peer_certificates().
HsPanic == [type |-> "panic", chain |-> None]
HsPending == [type |-> "pending", chain |-> None]
HsErr == [type |-> "err", chain |-> None]
HsOk(chain) == [type |-> "ok", chain |-> chain]
HsOutcomes(c) ==
    CASE accept[c] = "End" -> {HsPanic}
      [] accept[c] = "Handshaking" ->
           {HsPending, HsErr, HsOk(None)} \cup {HsOk(Some(ch)) : ch \in PeerChains}

\* A stream that falls back to Handshaking when its I/O fails.
StreamingIo_resets(c, op, f_res) ==
    /\ state' = [state EXCEPT ![c] = IF f_res = "err" THEN "Handshaking" ELSE @]
    /\ tls_ret' = TlsRet(op, c, f_res, "tls")
    /\ UNCHANGED <<accept, session_certs, hs_polled, poisoned, storage>>

\* TlsState::Streaming(ref mut stream) => return f(stream, cx)
StreamingIo(c, op, f_res) ==
    /\ tls_ret' = TlsRet(op, c, f_res, "tls")
    /\ UNCHANGED <<state, accept, session_certs, hs_polled, poisoned, storage>>

\* A failure that is not reported: the call returns Pending.
HandshakeFailed_swallowed(c, op) ==
    /\ hs_polled' = [hs_polled EXCEPT ![c] = TRUE]
    /\ accept' = [accept EXCEPT ![c] = "End"]
    /\ tls_ret' = TlsRet(op, c, "pending", "handshake")
    /\ UNCHANGED <<state, session_certs, poisoned, storage>>

\* Err(e) => { log::warn!(..); return Poll::Ready(Err(e)); }
\* The future has completed; the state stays Handshaking.
HandshakeFailed(c, op) ==
    /\ hs_polled' = [hs_polled EXCEPT ![c] = TRUE]
    /\ accept' = [accept EXCEPT ![c] = "End"]
    /\ tls_ret' = TlsRet(op, c, "err", "handshake")
    /\ UNCHANGED <<state, session_certs, poisoned, storage>>

\* A completion that returns Pending instead of going round the loop.
HandshakeDone_no_io(c, op, chain, f_res) ==
    /\ hs_polled' = [hs_polled EXCEPT ![c] = TRUE]
    /\ accept' = [accept EXCEPT ![c] = "End"]
    /\ session_certs' = [session_certs EXCEPT ![c] = chain]
    /\ IF IsSome(chain)
       THEN Certificates_set(certs[c], to_vec(Unwrap(chain)))
       ELSE UNCHANGED storage
    /\ state' = [state EXCEPT ![c] = "Streaming"]
    /\ tls_ret' = TlsRet(op, c, "pending", "handshake")
    /\ UNCHANGED <<poisoned>>

\* Ok(stream) => { if let Some(cert_chain) = stream.get_ref().1
\* .peer_certificates() { self.certs.set(cert_chain.to_vec()); }
\* self.state = TlsState::Streaming(stream); }
\* then the loop goes round: Streaming => return f(stream, cx).
HandshakeDone(c, op, chain, f_res) ==
    /\ hs_polled' = [hs_polled EXCEPT ![c] = TRUE]
    /\ accept' = [accept EXCEPT ![c] = "End"]
    /\ session_certs' = [session_certs EXCEPT ![c] = chain]
    /\ IF IsSome(chain)
       THEN Certificates_set(certs[c], to_vec(Unwrap(chain)))
       ELSE UNCHANGED storage
    /\ state' = [state EXCEPT ![c] = "Streaming"]
    /\ tls_ret' = TlsRet(op, c, f_res, "tls")
    /\ UNCHANGED <<poisoned>>

\* TlsStream::poll_accept_then(self, cx, f), called by poll_read and poll_write.
\* hs: what the handshake future gives if it is polled; f_res: what f gives if
\* it is called.
poll_accept_then(c, op, hs, f_res) ==
    IF state[c] = "Streaming"
    THEN StreamingIo(c, op, f_res)
    ELSE \* TlsState::Handshaking(ref mut accept) => match ready!(accept.poll(cx))
         CASE hs.type = "panic" ->
                /\ poisoned' = poisoned \cup {c}
                /\ tls_ret' = TlsRet(op, c, "panic", "handshake")
                /\ UNCHANGED <<state, accept, session_certs, hs_polled, storage>>
           [] hs.type = "pending" ->
                /\ hs_polled' = [hs_polled EXCEPT ![c] = TRUE]
                /\ tls_ret' = TlsRet(op, c, "pending", "handshake")
                /\ UNCHANGED <<state, accept, session_certs, poisoned, storage>>
           [] hs.type = "err" -> HandshakeFailed(c, op)
           [] hs.type = "ok" -> HandshakeDone(c, op, hs.chain, f_res)

\* AsyncRead::poll_read and AsyncWrite::poll_write of TlsStream
TlsStream_poll_io ==
    /\ \E c \in StreamIds, op \in {"read", "write"} :
         /\ Live(c)
         /\ \E hs \in HsOutcomes(c) :
              \E f_res \in (IF state[c] = "Streaming" \/ hs.type = "ok"
                             THEN PollResults ELSE {"pending"}) :
                poll_accept_then(c, op, hs, f_res)
    /\ UNCHANGED <<raw_accepted, raw_peer, remote, certs>>

\* A flush or shutdown that fails once the future has let go of the transport.
poll_flush_shutdown_not_connected(c, op, res) ==
    IF state[c] = "Handshaking"
    THEN IF IsSome(Accept_get_ref(c))
         THEN tls_ret' = TlsRet(op, c, res, "raw")
         ELSE tls_ret' = TlsRet(op, c, "err", "none")
    ELSE tls_ret' = TlsRet(op, c, res, "tls")

\* AsyncWrite::poll_flush and poll_shutdown of TlsStream; res: what the
\* transport acted on gives.
poll_flush_shutdown(c, op, res) ==
    IF state[c] = "Handshaking"
    THEN IF IsSome(Accept_get_ref(c))
         THEN tls_ret' = TlsRet(op, c, res, "raw")
         ELSE tls_ret' = TlsRet(op, c, "ok", "none")
    ELSE tls_ret' = TlsRet(op, c, res, "tls")

\* A flush or shutdown that polls the handshake future first.
TlsStream_poll_flush_shutdown_drives ==
    /\ \E c \in StreamIds, op \in {"flush", "shutdown"}, res \in PollResults :
         /\ Live(c)
         /\ poll_flush_shutdown(c, op, res)
         /\ hs_polled' = [hs_polled EXCEPT ![c] = TRUE]
    /\ UNCHANGED <<raw_accepted, raw_peer, remote, state, accept, certs,
                   session_certs, poisoned, storage>>

TlsStream_poll_flush_shutdown ==
    /\ \E c \in StreamIds, op \in {"flush", "shutdown"}, res \in PollResults :
         /\ Live(c)
         /\ poll_flush_shutdown(c, op, res)
    /\ UNCHANGED <<raw_accepted, raw_peer, remote, state, accept, certs,
                   session_certs, hs_polled, poisoned, storage>>

\* An enable_nodelay that does nothing once the stream is Streaming.
enable_nodelay_skipped(c, res) ==
    IF state[c] = "Handshaking"
    THEN IF IsSome(Accept_get_ref(c))
         THEN tls_ret' = TlsRet("enable_nodelay", c, res, "raw")
         ELSE tls_ret' = TlsRet("enable_nodelay", c, "ok", "none")
    ELSE tls_ret' = TlsRet("enable_nodelay", c, "ok", "none")

\* TlsStream::enable_nodelay(&self); res: what the raw transport's
\* enable_nodelay gives.
enable_nodelay(c, res) ==
    IF state[c] = "Handshaking"
    THEN IF IsSome(Accept_get_ref(c))
         THEN tls_ret' = TlsRet("enable_nodelay", c, res, "raw")
         ELSE tls_ret' = TlsRet("enable_nodelay", c, "ok", "none")
    ELSE tls_ret' = TlsRet("enable_nodelay", c, res, "raw")

TlsStream_enable_nodelay ==
    /\ \E c \in StreamIds, res \in {"ok", "err"} :
         /\ Live(c)
         /\ enable_nodelay(c, res)
    /\ UNCHANGED <<raw_accepted, raw_peer, remote, state, accept, certs,
                   session_certs, hs_polled, poisoned, storage>>

\* A call of TlsStream::peer_address.
TlsStream_peer_address ==
    /\ \E c \in StreamIds :
         /\ Live(c)
         /\ tls_ret' = TlsRet("peer_address", c,
                              IF IsSome(peer_address(c)) THEN "some" ELSE "none",
                              "none")
    /\ UNCHANGED <<raw_accepted, raw_peer, remote, state, accept, certs,
                   session_certs, hs_polled, poisoned, storage>>

\* A call of TlsStream::peer_certificates.
TlsStream_peer_certificates ==
    /\ \E c \in StreamIds :
         /\ Live(c)
         /\ tls_ret' = TlsRet("peer_certificates", c,
                              IF IsSome(peer_certificates(c)) THEN "some" ELSE "none",
                              "none")
    /\ UNCHANGED <<raw_accepted, raw_peer, remote, state, accept, certs,
                   session_certs, hs_polled, poisoned, storage>>

\* The peer of a raw connection goes away: its peer_address() is None from now on.
RawPeerGone ==
    /\ \E c \in StreamIds :
         /\ state[c] # "Absent"
         /\ IsSome(raw_peer[c])
         /\ raw_peer' = [raw_peer EXCEPT ![c] = None]
    /\ UNCHANGED <<raw_accepted, remote, state, accept, certs,
                   session_certs, hs_polled, poisoned, tls_ret, storage>>

\* ---------------------------------------------------------------- Certificates: properties

\* C5: once set was called with a chain C, every chain_data returns C and the
\* store holds C, however many set calls with other chains follow.
C5_FirstSetWins ==
    IsSome(first_set)
        => /\ chain_data(0) = first_set
           /\ cert_ret.op = "chain_data" => cert_ret.val = first_set

\* chain_data was read after a second set that passed another chain.
C5_Witness ==
    /\ sets >= 2
    /\ cert_ret.op = "chain_data"
    /\ first_set = Some(<<"leaf", "ca">>)
    /\ last_set = Some(<<"ca", "leaf">>)

\* ---------------------------------------------------------------- accept loop: properties

\* The step is an iteration of the loop of poll_accept_next.
IsLoopStep == pc = "loop" /\ (pc' = "idle" \/ inner_calls' # inner_calls)
\* The step polls the inner listener.
PollsInner == inner_calls' = inner_calls + 1
\* The step polls the inner listener, which answers with an error of a kind in K.
InnerFails(K) == PollsInner /\ inner_last'.type = "err" /\ inner_last'.kind \in K

\* C1: with a backoff D configured, an inner error that is not connection-scoped
\* arms a timer of D; a poll of the loop whose timer has not elapsed returns
\* pending without polling the inner listener; and every later poll of the
\* inner listener comes at least D after that error.
C1_BackoffDelaysNextAccept ==
    [][ /\ (InnerFails(OtherKinds) /\ IsSome(sleep_on_errors))
            => /\ pending_error_delay' = Some(now + Unwrap(sleep_on_errors))
               /\ sys_err_at' = Some(now)
        /\ (IsLoopStep /\ IsSome(pending_error_delay)
                       /\ now < Unwrap(pending_error_delay))
            => /\ inner_calls' = inner_calls
               /\ ret' = RetPending("timer")
               /\ pending_error_delay' = pending_error_delay
        /\ (PollsInner /\ IsSome(sys_err_at))
            => now >= Unwrap(sys_err_at) + Unwrap(sleep_on_errors)
      ]_vars

\* The inner listener was polled again after a backoff, D or more after the error.
C1_Witness ==
    /\ IsSome(sys_err_at)
    /\ inner_last.type = "ok"
    /\ inner_last_at >= Unwrap(sys_err_at) + Unwrap(sleep_on_errors)

\* C2: an inner error of kind ConnectionRefused, ConnectionAborted or
\* ConnectionReset arms no timer and does not return, whatever the backoff
\* configuration; the next step of that same poll polls the inner listener.
C2_ConnectionErrorRetriesAtOnce ==
    [][ /\ InnerFails(ConnectionKinds)
            => /\ pending_error_delay' = None
               /\ pc' = "loop"
               /\ ret' = ret
        /\ (IsLoopStep /\ calls_this_poll > 0 /\ inner_last.type = "err"
                       /\ inner_last.kind \in ConnectionKinds)
            => /\ PollsInner
               /\ calls_this_poll' = calls_this_poll + 1
      ]_vars

\* Two accept attempts in one poll with a backoff configured and no timer ever
\* armed: the first attempt failed with a connection-scoped error.
C2_Witness ==
    /\ calls_this_poll >= 2
    /\ IsSome(sleep_on_errors)
    /\ sys_err_at = None
    /\ inner_last.type = "ok"

\* C3 as stated: with no backoff configured an inner error that is not
\* connection-scoped is returned to the caller, and after an error was returned
\* the inner listener is never polled again, whatever polls follow.
C3_NoAcceptAfterFatal ==
    [][ /\ (InnerFails(OtherKinds) /\ sleep_on_errors = None)
            => pc' = "idle" /\ ret' = RetErr(inner_last'.kind)
        /\ ret.type = "err" => inner_calls' = inner_calls
      ]_vars

\* C3 amended: with no backoff configured an inner error that is not
\* connection-scoped ends that poll: the poll returns that error, arms no timer
\* and makes no further accept attempt; the inner listener is polled again only
\* if the caller polls the loop again.
C3_FatalEndsThePoll ==
    [][ /\ (InnerFails(OtherKinds) /\ sleep_on_errors = None)
            => /\ pc' = "idle"
               /\ ret' = RetErr(inner_last'.kind)
               /\ pending_error_delay' = None
        /\ pc # "loop" => inner_calls' = inner_calls
      ]_vars

\* A fatal error has been returned and the loop is not being polled.
C3_Witness ==
    /\ pc = "idle"
    /\ ret.type = "err"
    /\ sleep_on_errors = None

\* C4: an error is returned only for an inner error that is not
\* connection-scoped, and only while no backoff is configured.
C4_OnlyFatalErrorsSurface ==
    ret.type = "err" => (ret.kind \in OtherKinds /\ sleep_on_errors = None)

\* An error was returned by a poll that first swallowed a connection-scoped one.
C4_Witness ==
    /\ ret.type = "err"
    /\ pc = "idle"
    /\ calls_this_poll >= 2

\* C7: when the no-delay flag is set and enable_nodelay fails on the connection
\* just accepted, that poll returns that connection, arms no timer and keeps
\* the connection.
C7_NodelayFailureStillYields ==
    [][ (PollsInner /\ inner_last'.type = "ok" /\ nodelay
                    /\ conn_nodelay'[inner_last'.conn] = "failed")
            => /\ pc' = "idle"
               /\ ret' = RetOk(inner_last'.conn)
               /\ pending_error_delay' = None
               /\ yielded' = Append(yielded, inner_last'.conn)
      ]_vars

\* A connection whose enable_nodelay failed was returned.
C7_Witness ==
    /\ ret.type = "ok"
    /\ nodelay
    /\ conn_nodelay[ret.conn] = "failed"
    /\ ret.conn = yielded[Len(yielded)]

\* ---------------------------------------------------------------- TLS: properties

\* The streams the TlsListener has returned.
Accepted == {c \in StreamIds : state[c] # "Absent"}

\* C6: in every state of a TLS connection peer_certificates returns Some, a
\* store, never None.
C6_PeerCertificatesAlwaysSome ==
    /\ \A c \in Accepted :
         /\ IsSome(peer_certificates(c))
         /\ Unwrap(peer_certificates(c)) \in StoreIds
    /\ tls_ret.op = "peer_certificates" => tls_ret.type = "some"

\* peer_certificates was called on a stream whose handshake failed, while
\* another stream is Streaming.
C6_Witness ==
    /\ tls_ret.op = "peer_certificates"
    /\ state[tls_ret.conn] = "Handshaking"
    /\ accept[tls_ret.conn] = "End"
    /\ \E d \in Accepted : state[d] = "Streaming"

\* C8: the state of a TLS connection changes only from Handshaking to
\* Streaming, so at most once: a Streaming connection stays Streaming.
C8_StateChangesOnceToStreaming ==
    [][ \A c \in Accepted :
          /\ state[c] = "Streaming" => state'[c] = "Streaming"
          /\ state'[c] # state[c] => (state[c] = "Handshaking" /\ state'[c] = "Streaming")
      ]_vars

\* A stream that is Streaming has just had an I/O error.
C8_Witness ==
    /\ tls_ret.op \in {"read", "write"}
    /\ tls_ret.type = "err"
    /\ tls_ret.via = "tls"
    /\ state[tls_ret.conn] = "Streaming"

\* C9: when the peer presented the chain C in the handshake, chain_data on the
\* store peer_certificates returns gives exactly C, in the peer's order, in
\* every state where the connection is Streaming; a read or write that
\* returned ready-ok left the connection Streaming.
C9_StreamingStoreHoldsPeerChain ==
    /\ \A c \in Accepted :
         (state[c] = "Streaming" /\ IsSome(session_certs[c]))
            => chain_data(Unwrap(peer_certificates(c))) = session_certs[c]
    /\ (tls_ret.op \in {"read", "write"} /\ tls_ret.type = "ok")
            => state[tls_ret.conn] = "Streaming"

\* A read succeeded on a connection whose peer presented leaf then ca, after
\* another connection was filled with another chain.
C9_Witness ==
    /\ tls_ret.op = "read"
    /\ tls_ret.type = "ok"
    /\ session_certs[tls_ret.conn] = Some(<<"leaf", "ca">>)
    /\ chain_data(certs[tls_ret.conn]) = Some(<<"leaf", "ca">>)
    /\ \E d \in Accepted : d # tls_ret.conn /\ chain_data(certs[d]) = Some(<<"leaf">>)

\* C10: the poll_accept in which the raw listener yields a connection returns
\* it at once as a stream that is Handshaking, whose handshake future was not
\* polled, whose store is empty, and whose peer_address is what the raw
\* connection reports at that time; peer_address never changes afterwards.
C10_AcceptReturnsHandshakingStream ==
    [][ /\ \A c \in StreamIds : (c = raw_accepted + 1 /\ raw_accepted' = c)
            => /\ tls_ret' = TlsRet("poll_accept", c, "ok", "raw")
               /\ state'[c] = "Handshaking"
               /\ accept'[c] # "End"
               /\ ~hs_polled'[c]
               /\ chain_data(Unwrap(peer_certificates(c)))' = None
               /\ peer_address(c)' = raw_peer'[c]
        /\ \A c \in Accepted : peer_address(c)' = peer_address(c)
        /\ (tls_ret'.op = "poll_accept" /\ tls_ret'.type = "ok" /\ tls_ret' # tls_ret)
            => raw_accepted' = raw_accepted + 1
      ]_vars

\* A second stream was returned after the first one's store was filled, and
\* the first one's raw peer has gone away since it was accepted.
C10_Witness ==
    /\ tls_ret = TlsRet("poll_accept", 2, "ok", "raw")
    /\ IsSome(chain_data(certs[1]))
    /\ IsSome(peer_address(1))
    /\ raw_peer[1] = None
    /\ IsSome(peer_address(2))

\* ---------------------------------------------------------------- accept loop: two failures, then a connection

\* How many accept attempts of the scripted listener fail before one succeeds.
ScriptFailures == 2

\* The scripted inner listener: its first ScriptFailures accept attempts fail
\* with an error that is not connection-scoped (resource exhaustion), the next
\* one gives a connection, and it has nothing more to give after that.
ScriptedResult(k) ==
    IF k <= ScriptFailures THEN InnerErr("Other")
    ELSE IF k = ScriptFailures + 1 THEN InnerOk(inner_next)
    ELSE InnerPending

\* One iteration of the loop over the scripted listener.
ScriptedLoopIteration ==
    /\ LoopIteration
    /\ PollsInner => inner_last' = ScriptedResult(inner_calls + 1)

\* Time is counted from the first poll of the loop.
TickAfterFirstPoll ==
    /\ pc # "new"
    /\ Tick

\* C14: over a listener whose first two accept attempts fail with a
\* resource-exhaustion error and whose third succeeds, a loop with a backoff D
\* returns no error and yields one connection, at its third accept attempt
\* and no earlier than 2*D after its first poll.
C14_TwoFailuresThenSuccess ==
    IsSome(sleep_on_errors)
    => /\ ret.type # "err"
       /\ inner_calls <= ScriptFailures => yielded = <<>>
       /\ inner_calls > ScriptFailures => yielded = <<1>>
       /\ inner_calls = ScriptFailures + 1
            => /\ ret = RetOk(1)
               /\ inner_last = InnerOk(1)
               /\ inner_last_at >= ScriptFailures * Unwrap(sleep_on_errors)

\* With D = 50 ms the connection is yielded at the third attempt, 100 ms
\* after the first poll.
C14_Witness ==
    /\ sleep_on_errors = Some(50)
    /\ inner_calls = 3
    /\ yielded = <<1>>
    /\ ret = RetOk(1)
    /\ inner_last_at = 100
    /\ pc = "idle"

\* ---------------------------------------------------------------- accept loop: the default backoff

\* "Default is 1 second." (the doc comment of sleep_on_errors)
OneSecondMs == 1000

\* C18: an Incoming built by Incoming::new on which sleep_on_errors was never
\* called backs off for 1 second: after an error that is not
\* connection-scoped, the next accept attempt comes 1 second later or more.
C18_DefaultBackoffOneSecond ==
    [][ (PollsInner /\ IsSome(sys_err_at))
          => now >= Unwrap(sys_err_at) + OneSecondMs ]_vars

\* ---------------------------------------------------------------- accept loop: order, timer, adapter

\* The connections the inner listener has returned so far, in its order.
Produced == [i \in 1..(inner_next - 1) |-> i]

\* C21: the loop yields the inner listener's connections one for one and in
\* order: what has been yielded is at all times exactly what the inner
\* listener has returned, in its order, and the yielded sequence grows only
\* by the connection the inner listener returns in that step, which is what
\* that poll returns.
C21_YieldsInOrderOnce ==
    /\ [](yielded = Produced)
    /\ [][ /\ yielded' # yielded
               => /\ PollsInner /\ inner_last' = InnerOk(inner_next)
                  /\ yielded' = Append(yielded, inner_next)
                  /\ ret' = RetOk(inner_next) /\ pc' = "idle"
           /\ (PollsInner /\ inner_last'.type = "ok")
               => yielded' = Append(yielded, inner_last'.conn)
         ]_vars

\* Two connections were yielded in order; the second came after an error
\* that armed the backoff timer, once the timer had elapsed, and its
\* enable_nodelay failed.
C21_Witness ==
    /\ yielded = <<1, 2>>
    /\ inner_last = InnerOk(2)
    /\ ret = RetOk(2)
    /\ IsSome(sys_err_at)
    /\ inner_last_at >= Unwrap(sys_err_at) + Unwrap(sleep_on_errors)
    /\ conn_nodelay[2] = "failed"

\* C22: between polls of the loop a timer is armed only if the last poll
\* returned pending on that timer: when the last poll returned a connection
\* or an error, or returned pending because the inner listener was pending,
\* pending_error_delay is None; and a poll that finds an elapsed timer clears
\* it before it polls the inner listener, so the timer is not awaited again.
C22_TimerOnlyWhilePendingOnIt ==
    /\ []((pc # "loop" /\ (ret.type \in {"ok", "err", "none"}
                            \/ ret = RetPending("listener")))
            => pending_error_delay = None)
    /\ []((pc # "loop" /\ IsSome(pending_error_delay))
            => /\ ret = RetPending("timer")
               /\ IsSome(sys_err_at)
               /\ pending_error_delay
                    = Some(Unwrap(sys_err_at) + Unwrap(sleep_on_errors)))
    /\ [][ (PollsInner /\ IsSome(pending_error_delay'))
             => /\ inner_last'.type = "err"
                /\ pending_error_delay' = Some(now + Unwrap(sleep_on_errors))
         ]_vars

\* The timer of an earlier error elapsed, the inner listener was polled again
\* and was pending: the poll returned pending with no timer left.
C22_Witness ==
    /\ pc = "idle"
    /\ ret = RetPending("listener")
    /\ pending_error_delay = None
    /\ IsSome(sys_err_at)
    /\ inner_last_at >= Unwrap(sys_err_at) + Unwrap(sleep_on_errors)
    /\ now > inner_last_at

\* ---------------------------------------------------------------- accept loop: progress

\* One iteration of the loop over an inner listener that fails ScriptFailures
\* times, with errors of any kind, and has a connection ready after that.
LiveLoopIteration ==
    /\ LoopIteration
    /\ PollsInner => IF inner_calls < ScriptFailures
                     THEN inner_last'.type = "err"
                     ELSE inner_last'.type = "ok"

\* The armed timer makes progress: time passes while it has not elapsed.
\* (Time that passes while no timer is armed changes nothing the loop sees.)
TimerTick ==
    /\ IsSome(pending_error_delay)
    /\ now < Unwrap(pending_error_delay)
    /\ now' = now + TickMs
    /\ UNCHANGED <<sleep_on_errors, nodelay, pending_error_delay, pc, ret, yielded,
                   inner_next, conn_nodelay, inner_calls, calls_this_poll,
                   inner_last, inner_last_at, sys_err_at>>

\* C23: with a backoff configured, over an inner listener that returns
\* finitely many errors and then has a connection ready, a loop that is
\* polled again and again, with timers that make progress, eventually yields
\* a connection, and every timer it arms is eventually cleared.
C23_EventuallyYields ==
    /\ (pc # "new" /\ IsSome(sleep_on_errors)) ~> (Len(yielded) >= 1)
    /\ (pc # "new" /\ IsSome(sleep_on_errors) /\ IsSome(pending_error_delay))
          ~> (pending_error_delay = None)

\* With the default backoff both errors armed the timer and the connection
\* was yielded at the third attempt, after both timers had elapsed.
C23_Witness ==
    /\ sleep_on_errors = Some(DefaultSleepMs)
    /\ yielded = <<1>>
    /\ ret = RetOk(1)
    /\ inner_calls = ScriptFailures + 1
    /\ IsSome(sys_err_at)
    /\ Unwrap(sys_err_at) >= DefaultSleepMs
    /\ inner_last_at >= Unwrap(sys_err_at) + DefaultSleepMs

\* ---------------------------------------------------------------- accept loop: the Accept adapter

\* Poll<Option<..>>: Pending, or Ready with an Option.
PollPending == [poll |-> "pending", opt |-> None]
PollReady(opt) == [poll |-> "ready", opt |-> opt]

AdapterInit ==
    /\ accept_ret = [poll |-> "none", opt |-> None]
    /\ fatal_returned = FALSE

\* An adapter that ends the stream when the loop returns an error.
Poll_map_Some_ends_on_err(r) ==
    IF r.type = "pending" THEN PollPending
    ELSE IF r.type = "err" THEN PollReady(None)
    ELSE PollReady(Some(r))

\* Poll::map(Some): Pending stays Pending, Ready(t) becomes Ready(Some(t)).
Poll_map_Some(r) ==
    IF r.type = "pending" THEN PollPending ELSE PollReady(Some(r))

\* Accept::poll_accept: self.poll_accept_next(cx).map(Some). The call begins
\* with PollAcceptNext; this is one iteration of the loop inside it, and when
\* the loop returns, the call returns what the loop returned, mapped.
Accept_poll_accept ==
    /\ LoopIteration
    /\ accept_ret' = IF pc' = "idle" THEN Poll_map_Some(ret') ELSE accept_ret
    /\ fatal_returned' = (fatal_returned \/ (pc' = "idle" /\ ret'.type = "err"))

\* C24: Accept::poll_accept never signals the end of the stream: every call
\* returns Pending, Some(Ok(connection)) or Some(Err(error)), which is what
\* poll_accept_next returned, and never None, also after a call has
\* returned Some(Err(..)).
C24_AcceptNeverReturnsNone ==
    /\ accept_ret # PollReady(None)
    /\ accept_ret.poll \in {"none", "pending", "ready"}
    /\ accept_ret.poll = "ready"
         => /\ IsSome(accept_ret.opt)
            /\ Unwrap(accept_ret.opt).type \in {"ok", "err"}
    /\ (pc # "loop" /\ ret.type = "pending") => accept_ret = PollPending
    /\ (pc # "loop" /\ ret.type \in {"ok", "err"})
         => accept_ret = PollReady(Some(ret))

\* A call returned Some(Err(..)); a later call returned Some(Ok(connection)).
C24_Witness ==
    /\ fatal_returned
    /\ pc = "idle"
    /\ accept_ret = PollReady(Some(RetOk(1)))
    /\ sleep_on_errors = None

\* ---------------------------------------------------------------- TLS streams: failure, flush, nodelay

\* The handshake of c fails in this step.
HandshakeFails(c) ==
    /\ state[c] = "Handshaking" /\ accept[c] = "Handshaking"
    /\ state'[c] = "Handshaking" /\ accept'[c] = "End"

\* The handshake of c has failed.
Failed(c) == state[c] = "Handshaking" /\ accept[c] = "End"

\* C11: a handshake failure is returned as an error from the read or write
\* call whose poll made the handshake fail, and it touches that connection
\* only: the listener's state and the other connections are as they were, and
\* as long as the raw listener has a connection to give, poll_accept on the
\* listener still accepts it and returns a new stream.
C11_HandshakeFailureIsPerConnection ==
    /\ [][ \A c \in StreamIds : HandshakeFails(c)
             => /\ tls_ret'.op \in {"read", "write"}
                /\ tls_ret' = TlsRet(tls_ret'.op, c, "err", "handshake")
                /\ raw_accepted' = raw_accepted
                /\ \A d \in StreamIds \ {c} :
                     /\ state'[d] = state[d]
                     /\ accept'[d] = accept[d]
                     /\ remote'[d] = remote[d]
                     /\ certs'[d] = certs[d]
                     /\ chain_data(certs[d])' = chain_data(certs[d])
         ]_vars
    /\ []((raw_accepted < MaxStreams /\ \E c \in StreamIds : Failed(c))
            => ENABLED (/\ TlsListener_poll_accept
                        /\ tls_ret' = TlsRet("poll_accept", raw_accepted + 1,
                                             "ok", "raw")))

\* The first stream's handshake has failed and the listener has returned a
\* second stream since.
C11_Witness ==
    /\ Failed(1)
    /\ hs_polled[1]
    /\ tls_ret = TlsRet("poll_accept", 2, "ok", "raw")
    /\ state[2] = "Handshaking" /\ accept[2] = "Handshaking"

\* C12: poll_flush and poll_shutdown on a Handshaking stream act on the raw
\* transport while the handshake future holds it, and return ready-success
\* with no I/O once the future no longer holds it; on a Streaming stream they
\* go to the TLS stream.
C12_FlushShutdownByState ==
    tls_ret.op \in {"flush", "shutdown"}
    => LET c == tls_ret.conn IN
       /\ (state[c] = "Handshaking" /\ accept[c] = "Handshaking")
            => tls_ret.via = "raw"
       /\ (state[c] = "Handshaking" /\ accept[c] = "End")
            => tls_ret = TlsRet(tls_ret.op, c, "ok", "none")
       /\ state[c] = "Streaming" => tls_ret.via = "tls"
       /\ state[c] # "Absent"

\* A shutdown of a stream whose handshake has failed, while another stream
\* is Streaming.
C12_Witness ==
    /\ Failed(1)
    /\ tls_ret = TlsRet("shutdown", 1, "ok", "none")
    /\ state[2] = "Streaming"

\* C13: enable_nodelay on a Handshaking stream is forwarded to the raw
\* transport, and returns what it returns, while the handshake future holds
\* it, and returns success with no effect once the future no longer holds it;
\* on a Streaming stream it is forwarded to the raw transport under the TLS
\* stream.
C13_EnableNodelayByState ==
    tls_ret.op = "enable_nodelay"
    => LET c == tls_ret.conn IN
       /\ (state[c] = "Handshaking" /\ accept[c] = "Handshaking")
            => tls_ret.via = "raw"
       /\ (state[c] = "Handshaking" /\ accept[c] = "End")
            => tls_ret = TlsRet("enable_nodelay", c, "ok", "none")
       /\ state[c] = "Streaming" => tls_ret.via = "raw"
       /\ state[c] # "Absent"

\* On a Streaming stream the raw transport's enable_nodelay failed and the
\* failure came back.
C13_Witness ==
    /\ state[1] = "Streaming"
    /\ tls_ret = TlsRet("enable_nodelay", 1, "err", "raw")
    /\ Failed(2)

\* C16: only a read or a write moves a stream out of Handshaking: a step
\* that changes a Handshaking stream's state, polls its handshake future or
\* changes its certificate store is a poll_read or poll_write on that stream;
\* poll_flush, poll_shutdown, enable_nodelay, peer_address and
\* peer_certificates leave all of these as they were.
C16_OnlyReadWriteDriveHandshake ==
    [][ /\ \A c \in Accepted :
             (/\ state[c] = "Handshaking"
              /\ \/ state'[c] # state[c]
                 \/ accept'[c] # accept[c]
                 \/ hs_polled'[c] # hs_polled[c]
                 \/ c \in poisoned' \ poisoned
                 \/ chain_data(certs[c])' # chain_data(certs[c]))
             => /\ tls_ret'.op \in {"read", "write"}
                /\ tls_ret'.conn = c
        /\ (/\ tls_ret'.op \in {"flush", "shutdown", "enable_nodelay",
                                "peer_address", "peer_certificates"}
            /\ tls_ret' # tls_ret)
             => /\ state' = state
                /\ accept' = accept
                /\ hs_polled' = hs_polled
                /\ storage' = storage
      ]_vars

\* A flush on a stream that is still Handshaking, whose handshake future has
\* never been polled and whose store is empty.
C16_Witness ==
    /\ state[1] = "Handshaking" /\ accept[1] = "Handshaking"
    /\ ~hs_polled[1]
    /\ chain_data(certs[1]) = None
    /\ tls_ret = TlsRet("flush", 1, "ok", "raw")
    /\ state[2] = "Streaming"

\* ---------------------------------------------------------------- one stream's handshake

HsInit == driven_by = [c \in StreamIds |-> {}]

\* poll_read or poll_write of a stream; the call is noted when the stream is
\* Handshaking, where poll_accept_then polls the handshake future.
DrivenPollIo ==
    /\ TlsStream_poll_io
    /\ driven_by' = [c \in StreamIds |->
                       IF tls_ret'.conn = c /\ state[c] = "Handshaking"
                       THEN driven_by[c] \cup {tls_ret'.op}
                       ELSE driven_by[c]]

\* The listener gives its first stream.
FirstAccept ==
    /\ raw_accepted = 0
    /\ TlsListener_poll_accept

\* A read or write on c, still Handshaking with a live future, in this step.
IoOnHandshaking(c) ==
    /\ state[c] = "Handshaking" /\ accept[c] = "Handshaking"
    /\ tls_ret'.conn = c /\ tls_ret'.op \in {"read", "write"}
    /\ <<tlsVars, storage>>' # <<tlsVars, storage>>

\* One call of op on c can leave c with this state, future and store.
ReachableBy(op, c, st, fut, ch) ==
    ENABLED (/\ DrivenPollIo
             /\ tls_ret'.op = op /\ tls_ret'.conn = c
             /\ state'[c] = st /\ accept'[c] = fut
             /\ chain_data(certs[c])' = ch)

\* C19: poll_read and poll_write drive the one handshake of a stream alike.
\* A call that leaves the handshake pending returns pending from the
\* handshake, with the state Handshaking and the store empty; the call that
\* completes it fills the store with the session's chain, makes the state
\* Streaming and returns what its own operation on the TLS stream gives; and
\* whichever calls polled the handshake, a Streaming stream's store holds the
\* session's chain and a Handshaking stream's store is empty; in every state
\* a read and a write can leave the stream with the same states and stores.
C19_ReadWriteDriveHandshakeAlike ==
    /\ [][ \A c \in StreamIds : IoOnHandshaking(c)
             => /\ accept'[c] = "Handshaking"
                     => /\ tls_ret' = TlsRet(tls_ret'.op, c, "pending", "handshake")
                        /\ state'[c] = "Handshaking"
                        /\ chain_data(certs[c])' = None
                /\ state'[c] = "Streaming"
                     => /\ tls_ret'.via = "tls"
                        /\ tls_ret'.type \in PollResults
                        /\ accept'[c] = "End"
                        /\ chain_data(certs[c])' = session_certs'[c]
         ]_vars
    /\ [](\A c \in Accepted :
            /\ state[c] = "Streaming"
                 => /\ driven_by[c] # {}
                    /\ chain_data(certs[c]) = session_certs[c]
            /\ state[c] = "Handshaking" => chain_data(certs[c]) = None
            /\ driven_by[c] = {} => state[c] = "Handshaking" /\ ~hs_polled[c])
    /\ [](\A c \in Accepted, st \in {"Handshaking", "Streaming"},
             fut \in {"Handshaking", "End"},
             ch \in {None} \cup {Some(to_vec(x)) : x \in PeerChains} :
            ReachableBy("read", c, st, fut, ch)
              <=> ReachableBy("write", c, st, fut, ch))

\* Reads and writes both polled the handshake; a write completed it, filled
\* the store and wrote to the TLS stream in the same call.
C19_Witness ==
    /\ state[1] = "Streaming"
    /\ driven_by[1] = {"read", "write"}
    /\ tls_ret = TlsRet("write", 1, "ok", "tls")
    /\ chain_data(certs[1]) = Some(<<"leaf", "ca">>)

\* C20: once the handshake of a stream has failed it is not retried: no
\* later call polls the handshake future again, the stream never becomes
\* Streaming and its store is never filled.
C20_FailedHandshakeNotRetried ==
    [][ \A c \in Accepted : Failed(c)
          => /\ ~(/\ tls_ret'.conn = c
                  /\ tls_ret'.via = "handshake"
                  /\ tls_ret' # tls_ret)
             /\ c \in poisoned' => c \in poisoned
             /\ state'[c] = "Handshaking"
             /\ chain_data(certs[c])' = None
      ]_vars

\* ---------------------------------------------------------------- one store, many tasks

\* The tasks. Each holds a clone of one Certificates handle: Certificates is
\* an Arc around the store (#[derive(Clone)]), so every clone reaches the same
\* cell. Certificates::set is Storage::set and chain_data is Storage::try_get
\* of the state crate; their steps are the atomic accesses of that cell.
SetterIds == {"s1", "s2"}
ReaderIds == {"r1", "r2"}

RaceInit ==
    /\ init_started = FALSE
    /\ init_done = FALSE
    /\ item = None
    /\ setters = [t \in SetterIds |->
                    [pc |-> "idle", data |-> <<>>, n |-> 0, ret |-> "none"]]
    /\ readers = [t \in ReaderIds |->
                    [pc |-> "idle", val |-> None, returned |-> FALSE, after |-> None]]
    /\ filled_by = None

\* Certificates::set(&self, data): the call begins.
Set_call(t) ==
    /\ setters[t].pc = "idle"
    /\ \E data \in PeerChains :
         setters' = [setters EXCEPT ![t] =
                       [pc |-> "needed", data |-> to_vec(data), n |-> 0, ret |-> "none"]]
    /\ UNCHANGED <<init_started, init_done, item, readers, filled_by>>

\* A claim of the write that every caller wins.
Set_needed_unguarded(t) ==
    /\ setters[t].pc = "needed"
    /\ init_started' = TRUE
    /\ setters' = [setters EXCEPT ![t].pc = "write"]
    /\ UNCHANGED <<init_done, item, readers, filled_by>>

\* Storage::set: `if self.init.needed()`: one compare-and-swap on `started`
\* decides which call writes; the others wait for `done` and return false.
Set_needed(t) ==
    /\ setters[t].pc = "needed"
    /\ IF init_done
       THEN /\ setters' = [setters EXCEPT ![t].pc = "returned", ![t].ret = "false"]
            /\ UNCHANGED init_started
       ELSE IF ~init_started
       THEN /\ init_started' = TRUE
            /\ setters' = [setters EXCEPT ![t].pc = "write"]
       ELSE /\ setters' = [setters EXCEPT ![t].pc = "spin"]
            /\ UNCHANGED init_started
    /\ UNCHANGED <<init_done, item, readers, filled_by>>

\* The loser of the compare-and-swap spins until `done`, then returns false.
Set_spin(t) ==
    /\ setters[t].pc = "spin"
    /\ init_done
    /\ setters' = [setters EXCEPT ![t].pc = "returned", ![t].ret = "false"]
    /\ UNCHANGED <<init_started, init_done, item, readers, filled_by>>

\* The winner writes the value into the cell; the write is not atomic, the
\* chain appears certificate by certificate.
Set_write(t) ==
    /\ setters[t].pc = "write"
    /\ LET k == setters[t].n + 1 IN
       /\ item' = Some(SubSeq(setters[t].data, 1, k))
       /\ setters' = [setters EXCEPT ![t].n = k,
                                     ![t].pc = IF k = Len(setters[t].data)
                                               THEN "mark" ELSE "write"]
    /\ UNCHANGED <<init_started, init_done, readers, filled_by>>

\* self.init.mark_complete(); return true
Set_mark_complete(t) ==
    /\ setters[t].pc = "mark"
    /\ init_done' = TRUE
    /\ setters' = [setters EXCEPT ![t].pc = "returned", ![t].ret = "true"]
    /\ filled_by' = Some(setters[t].data)
    /\ UNCHANGED <<init_started, item, readers>>

\* Certificates::chain_data(&self): the call begins.
Read_call(t) ==
    /\ readers[t].pc = "idle"
    /\ readers' = [readers EXCEPT ![t] =
                     [pc |-> "check", val |-> None, returned |-> FALSE,
                      after |-> filled_by]]
    /\ UNCHANGED <<init_started, init_done, item, setters, filled_by>>

\* A check that lets every read through to the cell.
has_completed_unchecked == TRUE

\* Storage::try_get: `if !self.init.has_completed() { return None }`
has_completed == init_done

Read_check(t) ==
    /\ readers[t].pc = "check"
    /\ IF has_completed
       THEN readers' = [readers EXCEPT ![t].pc = "deref"]
       ELSE readers' = [readers EXCEPT ![t].pc = "idle", ![t].val = None,
                                       ![t].returned = TRUE]
    /\ UNCHANGED <<init_started, init_done, item, setters, filled_by>>

\* try_get reads the cell; chain_data maps it with as_slice.
Read_deref(t) ==
    /\ readers[t].pc = "deref"
    /\ readers' = [readers EXCEPT ![t].pc = "idle",
                                  ![t].val = IF IsSome(item)
                                             THEN Some(as_slice(Unwrap(item)))
                                             ELSE None,
                                  ![t].returned = TRUE]
    /\ UNCHANGED <<init_started, init_done, item, setters, filled_by>>

\* The set calls that have claimed the write.
Winners == {t \in SetterIds : setters[t].pc \in {"write", "mark"}
                                \/ setters[t].ret = "true"}

\* C15: tasks set and read one store through clones of its handle. Every
\* read returns None or the whole chain of the one set that won, never a
\* part of it, and no two reads return different chains; a read that begins
\* after a set has returned true returns that set's chain; of the sets that
\* race exactly one stores its chain and returns true.
C15_ReadsSeeNothingOrWholeChain ==
    /\ \A r \in ReaderIds : readers[r].returned
         => /\ \/ readers[r].val = None
               \/ \E t \in Winners : readers[r].val = Some(setters[t].data)
            /\ IsSome(readers[r].after) => readers[r].val = readers[r].after
            /\ \A q \in ReaderIds :
                 (readers[q].returned /\ IsSome(readers[q].val)
                    /\ IsSome(readers[r].val))
                 => readers[q].val = readers[r].val
    /\ Cardinality(Winners) <= 1
    /\ init_done
         => \E t \in SetterIds :
              /\ setters[t].ret = "true"
              /\ item = Some(setters[t].data)
              /\ filled_by = item
              /\ \A u \in SetterIds \ {t} : setters[u].ret # "true"
    /\ (\A t \in SetterIds : setters[t].pc = "returned")
         => Cardinality({t \in SetterIds : setters[t].ret = "true"}) = 1

\* Two sets raced with different chains, one won; one reader returned None
\* while the winner had written a part of its chain, the other read the
\* whole chain after the fill.
C15_Witness ==
    /\ setters["s1"].ret = "true" /\ setters["s1"].data = <<"leaf", "ca">>
    /\ setters["s2"].ret = "false" /\ setters["s2"].data = <<"ca", "leaf">>
    /\ readers["r1"].returned /\ readers["r1"].val = None
    /\ readers["r2"].returned /\ readers["r2"].val = Some(<<"leaf", "ca">>)
    /\ readers["r2"].after = Some(<<"leaf", "ca">>)

\* ---------------------------------------------------------------- listeners and the filesystem

Paths == {"p1", "p2"}
ListenerIds == {"l1", "l2"}
LocalStreamIds == {"c1", "c2"}

NoListener == [kind |-> "none", path |-> None, live |-> FALSE]
\* what: "none", "listener" or "stream"; addr_ok: local_addr() was Ok;
\* rm_ok: remove_file could remove the path; error: the drop panicked or
\* reported an error.
Dropped(what, kind, l, addr_ok, rm_ok, error) ==
    [what |-> what, kind |-> kind, of |-> l, addr_ok |-> addr_ok,
     rm_ok |-> rm_ok, error |-> error]

FsInit ==
    /\ fs = {}
    /\ listeners = [l \in ListenerIds |-> NoListener]
    /\ local_streams = [l \in ListenerIds |-> {}]
    /\ dropped = Dropped("none", "none", "l1", FALSE, FALSE, FALSE)

\* bind_tcp(address): a TCP listener has no path.
bind_tcp(l) ==
    /\ listeners[l].kind = "none"
    /\ listeners' = [listeners EXCEPT ![l] =
                       [kind |-> "tcp", path |-> None, live |-> TRUE]]
    /\ UNCHANGED <<fs, local_streams, dropped>>

\* bind_unix(path): UnixListener::bind(path).map(UnixListenerWrapper); the
\* bind creates the socket file and fails when the path exists.
bind_unix(l, path) ==
    /\ listeners[l].kind = "none"
    /\ path \notin fs
    /\ fs' = fs \cup {path}
    /\ listeners' = [listeners EXCEPT ![l] =
                       [kind |-> "unix", path |-> Some(path), live |-> TRUE]]
    /\ UNCHANGED <<local_streams, dropped>>

\* poll_accept of a live listener gives a connection.
Local_accept(l) ==
    /\ listeners[l].live
    /\ \E c \in LocalStreamIds \ local_streams[l] :
         local_streams' = [local_streams EXCEPT ![l] = @ \cup {c}]
    /\ UNCHANGED <<fs, listeners, dropped>>

\* A connection is dropped: TcpStream and UnixStream have no Drop of this
\* crate, the socket is closed and nothing else happens.
Stream_drop(l, c) ==
    /\ c \in local_streams[l]
    /\ local_streams' = [local_streams EXCEPT ![l] = @ \ {c}]
    /\ dropped' = Dropped("stream", listeners[l].kind, l, FALSE, FALSE, FALSE)
    /\ UNCHANGED <<fs, listeners>>

\* A TcpListener is dropped: it has no Drop of this crate.
TcpListener_drop(l) ==
    /\ listeners[l].live /\ listeners[l].kind = "tcp"
    /\ listeners' = [listeners EXCEPT ![l].live = FALSE]
    /\ dropped' = Dropped("listener", "tcp", l, FALSE, FALSE, FALSE)
    /\ UNCHANGED <<fs, local_streams>>

\* A drop that leaves the socket file behind.
UnixListenerWrapper_drop_keeps_path(l, addr_ok, rm_ok) ==
    /\ listeners[l].live /\ listeners[l].kind = "unix"
    /\ listeners' = [listeners EXCEPT ![l].live = FALSE]
    /\ dropped' = Dropped("listener", "unix", l, addr_ok, rm_ok, FALSE)
    /\ UNCHANGED <<fs, local_streams>>

\* impl Drop for UnixListenerWrapper: if let Ok(addr) = self.0.local_addr()
\* { if let Some(path) = addr.as_pathname() { let _ = remove_file(path); } }
\* addr_ok: local_addr() is Ok; rm_ok: remove_file can remove the path (it
\* fails in any case when the path does not exist). Its result is discarded.
UnixListenerWrapper_drop(l, addr_ok, rm_ok) ==
    /\ listeners[l].live /\ listeners[l].kind = "unix"
    /\ listeners' = [listeners EXCEPT ![l].live = FALSE]
    /\ LET path == Unwrap(listeners[l].path) IN
       IF addr_ok /\ path \in fs /\ rm_ok
       THEN fs' = fs \ {path}
       ELSE fs' = fs
    /\ dropped' = Dropped("listener", "unix", l, addr_ok, rm_ok, FALSE)
    /\ UNCHANGED <<local_streams>>

\* Something else removes a path from the filesystem.
ExternalUnlink(path) ==
    /\ path \in fs
    /\ fs' = fs \ {path}
    /\ UNCHANGED <<listeners, local_streams, dropped>>

\* The step drops listener l.
DropsListener(l) == listeners[l].live /\ ~listeners'[l].live
\* The step drops a connection of listener l.
DropsStream(l) ==
    /\ local_streams'[l] # local_streams[l]
    /\ local_streams'[l] \subseteq local_streams[l]

\* C17: the drop of a local-socket listener whose path exists removes that
\* path, unless local_addr or remove_file fails, and then the drop completes
\* all the same, with no error and the filesystem as it was. The drop of a
\* connection accepted from it, and the drop of a TCP listener, leave the
\* filesystem as it was.
C17_DropRemovesSocketPath ==
    [][ \A l \in ListenerIds :
          /\ (DropsListener(l) /\ listeners[l].kind = "unix")
               => /\ dropped'.what = "listener" /\ dropped'.of = l
                  /\ ~dropped'.error
                  /\ \A path \in Paths : listeners[l].path = Some(path)
                       => IF path \in fs /\ dropped'.addr_ok /\ dropped'.rm_ok
                          THEN fs' = fs \ {path}
                          ELSE fs' = fs
          /\ (DropsListener(l) /\ listeners[l].kind = "tcp") => fs' = fs
          /\ DropsStream(l) => fs' = fs /\ listeners' = listeners
      ]_vars

\* A local-socket listener was dropped and its path is gone; a connection
\* accepted from it was dropped before, while the path was there, and
\* another is still open; a TCP listener was dropped too.
C17_Witness ==
    /\ dropped = Dropped("listener", "unix", "l1", TRUE, TRUE, FALSE)
    /\ listeners["l1"] = [kind |-> "unix", path |-> Some("p1"), live |-> FALSE]
    /\ "p1" \notin fs
    /\ local_streams["l1"] = {"c2"}
    /\ listeners["l2"] = [kind |-> "tcp", path |-> None, live |-> FALSE]

\* ---------------------------------------------------------------- specifications

Init ==
    /\ AcceptInit
    /\ TlsInit
    /\ storage = [h \in StoreIds |-> None]
    /\ CertInit
    /\ HsInit
    /\ RaceInit
    /\ FsInit
    /\ AdapterInit

\* The accept loop.
Next ==
    \/ (SleepOnErrors /\ UNCHANGED <<tlsVars, storage, certVars, hsVars, raceVars, fsVars, adapterVars>>)
    \/ (Nodelay /\ UNCHANGED <<tlsVars, storage, certVars, hsVars, raceVars, fsVars, adapterVars>>)
    \/ (PollAcceptNext /\ UNCHANGED <<tlsVars, storage, certVars, hsVars, raceVars, fsVars, adapterVars>>)
    \/ (LoopIteration /\ UNCHANGED <<tlsVars, storage, certVars, hsVars, raceVars, fsVars, adapterVars>>)
    \/ (Tick /\ UNCHANGED <<tlsVars, storage, certVars, hsVars, raceVars, fsVars, adapterVars>>)

Spec == Init /\ [][Next]_vars

\* The TLS listener and its streams.
TlsNext ==
    \/ (TlsListener_poll_accept /\ UNCHANGED <<acceptVars, certVars, hsVars, raceVars, fsVars, adapterVars>>)
    \/ (TlsStream_poll_io /\ UNCHANGED <<acceptVars, certVars, hsVars, raceVars, fsVars, adapterVars>>)
    \/ (TlsStream_poll_flush_shutdown /\ UNCHANGED <<acceptVars, certVars, hsVars, raceVars, fsVars, adapterVars>>)
    \/ (TlsStream_enable_nodelay /\ UNCHANGED <<acceptVars, certVars, hsVars, raceVars, fsVars, adapterVars>>)
    \/ (TlsStream_peer_certificates /\ UNCHANGED <<acceptVars, certVars, hsVars, raceVars, fsVars, adapterVars>>)
    \/ (RawPeerGone /\ UNCHANGED <<acceptVars, certVars, hsVars, raceVars, fsVars, adapterVars>>)

TlsSpec == Init /\ [][TlsNext]_vars

\* One Certificates store and its caller.
CertNext ==
    \/ (Cert_set /\ UNCHANGED <<acceptVars, tlsVars, hsVars, raceVars, fsVars, adapterVars>>)
    \/ (Cert_chain_data /\ UNCHANGED <<acceptVars, tlsVars, hsVars, raceVars, fsVars, adapterVars>>)

CertSpec == Init /\ [][CertNext]_vars

\* The TLS listener and every call on its streams, with peers that stay.
StreamNext ==
    \/ (TlsListener_poll_accept /\ UNCHANGED <<acceptVars, certVars, hsVars, raceVars, fsVars, adapterVars>>)
    \/ (TlsStream_poll_io /\ UNCHANGED <<acceptVars, certVars, hsVars, raceVars, fsVars, adapterVars>>)
    \/ (TlsStream_poll_flush_shutdown /\ UNCHANGED <<acceptVars, certVars, hsVars, raceVars, fsVars, adapterVars>>)
    \/ (TlsStream_enable_nodelay /\ UNCHANGED <<acceptVars, certVars, hsVars, raceVars, fsVars, adapterVars>>)
    \/ (TlsStream_peer_address /\ UNCHANGED <<acceptVars, certVars, hsVars, raceVars, fsVars, adapterVars>>)
    \/ (TlsStream_peer_certificates /\ UNCHANGED <<acceptVars, certVars, hsVars, raceVars, fsVars, adapterVars>>)

StreamSpec == Init /\ [][StreamNext]_vars

\* One stream of the TLS listener and the calls that drive its handshake.
HandshakeNext ==
    \/ (FirstAccept /\ UNCHANGED <<acceptVars, certVars, hsVars, raceVars, fsVars, adapterVars>>)
    \/ (DrivenPollIo /\ UNCHANGED <<acceptVars, certVars, raceVars, fsVars, adapterVars>>)
    \/ (TlsStream_poll_flush_shutdown /\ UNCHANGED <<acceptVars, certVars, hsVars, raceVars, fsVars, adapterVars>>)

HandshakeSpec == Init /\ [][HandshakeNext]_vars

\* The accept loop over the scripted listener.
BackoffNext ==
    \/ (SleepOnErrors /\ UNCHANGED <<tlsVars, storage, certVars, hsVars, raceVars, fsVars, adapterVars>>)
    \/ (Nodelay /\ UNCHANGED <<tlsVars, storage, certVars, hsVars, raceVars, fsVars, adapterVars>>)
    \/ (PollAcceptNext /\ UNCHANGED <<tlsVars, storage, certVars, hsVars, raceVars, fsVars, adapterVars>>)
    \/ (ScriptedLoopIteration /\ UNCHANGED <<tlsVars, storage, certVars, hsVars, raceVars, fsVars, adapterVars>>)
    \/ (TickAfterFirstPoll /\ UNCHANGED <<tlsVars, storage, certVars, hsVars, raceVars, fsVars, adapterVars>>)

BackoffSpec == Init /\ [][BackoffNext]_vars

\* The accept loop of an Incoming on which sleep_on_errors is never called.
DefaultNext ==
    \/ (Nodelay /\ UNCHANGED <<tlsVars, storage, certVars, hsVars, raceVars, fsVars, adapterVars>>)
    \/ (PollAcceptNext /\ UNCHANGED <<tlsVars, storage, certVars, hsVars, raceVars, fsVars, adapterVars>>)
    \/ (LoopIteration /\ UNCHANGED <<tlsVars, storage, certVars, hsVars, raceVars, fsVars, adapterVars>>)
    \/ (Tick /\ UNCHANGED <<tlsVars, storage, certVars, hsVars, raceVars, fsVars, adapterVars>>)

DefaultSpec == Init /\ [][DefaultNext]_vars

\* One Certificates store, set and read by concurrent tasks.
RaceNext ==
    \/ \E t \in SetterIds :
         \/ (Set_call(t) /\ UNCHANGED <<acceptVars, tlsVars, storage, certVars, hsVars, fsVars, adapterVars>>)
         \/ (Set_needed(t) /\ UNCHANGED <<acceptVars, tlsVars, storage, certVars, hsVars, fsVars, adapterVars>>)
         \/ (Set_spin(t) /\ UNCHANGED <<acceptVars, tlsVars, storage, certVars, hsVars, fsVars, adapterVars>>)
         \/ (Set_write(t) /\ UNCHANGED <<acceptVars, tlsVars, storage, certVars, hsVars, fsVars, adapterVars>>)
         \/ (Set_mark_complete(t) /\ UNCHANGED <<acceptVars, tlsVars, storage, certVars, hsVars, fsVars, adapterVars>>)
    \/ \E t \in ReaderIds :
         \/ (Read_call(t) /\ UNCHANGED <<acceptVars, tlsVars, storage, certVars, hsVars, fsVars, adapterVars>>)
         \/ (Read_check(t) /\ UNCHANGED <<acceptVars, tlsVars, storage, certVars, hsVars, fsVars, adapterVars>>)
         \/ (Read_deref(t) /\ UNCHANGED <<acceptVars, tlsVars, storage, certVars, hsVars, fsVars, adapterVars>>)

RaceSpec == Init /\ [][RaceNext]_vars

\* Listeners of both kinds, their connections, and the filesystem.
DropNext ==
    \/ \E l \in ListenerIds :
         \/ (bind_tcp(l) /\ UNCHANGED <<acceptVars, tlsVars, storage, certVars, hsVars, raceVars, adapterVars>>)
         \/ (\E path \in Paths : bind_unix(l, path)
               /\ UNCHANGED <<acceptVars, tlsVars, storage, certVars, hsVars, raceVars, adapterVars>>)
         \/ (Local_accept(l) /\ UNCHANGED <<acceptVars, tlsVars, storage, certVars, hsVars, raceVars, adapterVars>>)
         \/ (\E c \in LocalStreamIds : Stream_drop(l, c)
               /\ UNCHANGED <<acceptVars, tlsVars, storage, certVars, hsVars, raceVars, adapterVars>>)
         \/ (TcpListener_drop(l) /\ UNCHANGED <<acceptVars, tlsVars, storage, certVars, hsVars, raceVars, adapterVars>>)
         \/ (\E addr_ok \in BOOLEAN, rm_ok \in BOOLEAN : UnixListenerWrapper_drop(l, addr_ok, rm_ok)
               /\ UNCHANGED <<acceptVars, tlsVars, storage, certVars, hsVars, raceVars, adapterVars>>)
    \/ \E path \in Paths :
         (ExternalUnlink(path) /\ UNCHANGED <<acceptVars, tlsVars, storage, certVars, hsVars, raceVars, adapterVars>>)

DropSpec == Init /\ [][DropNext]_vars

\* The accept loop polled fairly over a listener that fails finitely often.
LiveNext ==
    \/ (SleepOnErrors /\ UNCHANGED <<tlsVars, storage, certVars, hsVars, raceVars, fsVars, adapterVars>>)
    \/ (Nodelay /\ UNCHANGED <<tlsVars, storage, certVars, hsVars, raceVars, fsVars, adapterVars>>)
    \/ (PollAcceptNext /\ UNCHANGED <<tlsVars, storage, certVars, hsVars, raceVars, fsVars, adapterVars>>)
    \/ (LiveLoopIteration /\ UNCHANGED <<tlsVars, storage, certVars, hsVars, raceVars, fsVars, adapterVars>>)
    \/ (TimerTick /\ UNCHANGED <<tlsVars, storage, certVars, hsVars, raceVars, fsVars, adapterVars>>)

\* The caller polls again (it is woken by the timer or by the listener), a
\* poll that has begun runs on, and an armed timer makes progress.
LiveSpec ==
    /\ Init
    /\ [][LiveNext]_vars
    /\ WF_vars(PollAcceptNext /\ UNCHANGED <<tlsVars, storage, certVars, hsVars, raceVars, fsVars, adapterVars>>)
    /\ WF_vars(LiveLoopIteration /\ UNCHANGED <<tlsVars, storage, certVars, hsVars, raceVars, fsVars, adapterVars>>)
    /\ WF_vars(TimerTick /\ UNCHANGED <<tlsVars, storage, certVars, hsVars, raceVars, fsVars, adapterVars>>)

\* The accept loop behind its Accept adapter.
AdapterNext ==
    \/ (SleepOnErrors /\ UNCHANGED <<tlsVars, storage, certVars, hsVars, raceVars, fsVars, adapterVars>>)
    \/ (Nodelay /\ UNCHANGED <<tlsVars, storage, certVars, hsVars, raceVars, fsVars, adapterVars>>)
    \/ (PollAcceptNext /\ UNCHANGED <<tlsVars, storage, certVars, hsVars, raceVars, fsVars, adapterVars>>)
    \/ (Accept_poll_accept /\ UNCHANGED <<tlsVars, storage, certVars, hsVars, raceVars, fsVars>>)
    \/ (Tick /\ UNCHANGED <<tlsVars, storage, certVars, hsVars, raceVars, fsVars, adapterVars>>)

AdapterSpec == Init /\ [][AdapterNext]_vars

====
